---- MODULE Spec2Model ----
(***************************************************************************)
(* Table layout of generate_pdf.py: PDFGenerator.add_products_table and    *)
(* generate_pdf_from_data, together with the behaviour of the FPDF drawing *)
(* surface the class inherits (automatic page break inside cell(), page    *)
(* header()/footer() callbacks, ln()).                                     *)
(*                                                                         *)
(* Lengths are millimetres.  All vertical positions the program produces   *)
(* are whole millimetres; the A4 page height of the surface is 297.00008,  *)
(* no position reaches 282 < p <= 282.00008, so 297 decides every          *)
(* comparison the same way.                                                *)
(***************************************************************************)
EXTENDS Integers, Sequences, FiniteSets, TLC

\* ------------------------------------------------------------------ bounds
MaxRows == 64
MaxCols == 3
MaxTextLen == 22
NumPatterns == 3

\* ------------------------------------------------------ program constants
PageHeight == 297
t_margin == 10
b_margin == 15
TitleHeight == 10
TitleGap == 5
FooterOffset == 15
FooterHeight == 10
available_width == 190
num_col_width == 12
HeaderRowHeight == 10
DataRowHeight == 8
SummaryGap == 5
SummaryHeight == 10
MaxHeaderChars == 15
MaxCellChars == 20
MantissaBits == 52

\* set_auto_page_break(auto=True, margin=15): the trigger is h - b_margin
page_break_trigger == PageHeight - b_margin

VARIABLES pc, df, pdf, i, j, fill, col_width, text, limit, out, again

vars == <<pc, df, pdf, i, j, fill, col_width, text, limit, out, again>>

\* the variables of the table layout, those of a single truncation
layout_vars == <<df, pdf, i, j, fill, col_width>>

trunc_vars == <<text, limit, out, again>>

\* ------------------------------------------------------------- text model
\* A text is a sequence of character codes.  Pattern p of length n.
PatternText(p, n) == [k \in 1..n |-> (k * p) % 5]

Min(a, b) == IF a < b THEN a ELSE b

\* mutant: the slice keeps one character too many
Truncate_one_more(s, n) == SubSeq(s, 1, Min(Len(s), n + 1))

\* s[:n] of Python
Truncate(s, n) == SubSeq(s, 1, Min(Len(s), n))

\* str(col) of the column at position c (1-based), str(row[col]) of row r
ColumnName(c) == PatternText(1, MaxHeaderChars - 2 + c)

CellValue(r, c) == PatternText(2, MaxCellChars - 2 + ((r + c) % 4))

\* ------------------------------------------------- binary floating point
\* Python's int / int is the correctly rounded IEEE-754 double of the exact
\* quotient.  A double q = fl(a / b) is represented exactly by
\*   q = (a * 2^scale + err) / (b * 2^scale)
\* where 2^-scale is the unit in the last place of q and err / b is the
\* rounding error in such units (-b/2 <= err <= b/2).

RECURSIVE Exponent(_, _)
\* floor(log2(a / b)) for a >= b > 0
Exponent(a, b) == IF 2 * b <= a THEN 1 + Exponent(a, 2 * b) ELSE 0

RECURSIVE NegExponent(_, _)
\* -floor(log2(a / b)) for 0 < a < b
NegExponent(a, b) == IF a >= b THEN 0 ELSE 1 + NegExponent(2 * a, b)

RECURSIVE DivSteps(_, _, _, _)
\* k further binary digits of the quotient: remainder and last digit
DivSteps(r, b, k, bit) ==
    IF k = 0 THEN [rem |-> r, odd |-> bit]
    ELSE DivSteps((2 * r) % b, b, k - 1, (2 * r) \div b)

FloatDiv(a, b) ==
    LET e == IF a >= b THEN Exponent(a, b) ELSE 0 - NegExponent(a, b)
        s == MantissaBits - e
        d == DivSteps(a % b, b, s, (a \div b) % 2)
        up == \/ 2 * d.rem > b
              \/ (2 * d.rem = b /\ d.odd = 1)      \* ties to even
    IN  [num |-> a, den |-> b, scale |-> s,
         err |-> IF up THEN b - d.rem ELSE 0 - d.rem]

\* ------------------------------------------------------ drawing surface
\* The FPDF object: current page number, vertical cursor, height of the
\* last cell (used by ln()), current fill colour, and the drawing
\* instructions emitted so far.
NoText == <<>>

Band(kind, s, h, row, col, fl, idx, txt) ==
    [kind |-> kind, page |-> s.page, y |-> s.y, h |-> h, row |-> row,
     col |-> col, fill |-> fl, idx |-> idx, text |-> txt]

Emit(s, b) == [s EXCEPT !.ops = Append(@, b)]

\* PDFGenerator.header: title cell (new_y = NEXT) and ln(5)
header(s) ==
    LET drawn == Emit(s, Band("title", s, TitleHeight, 0, 0, "none", 0, NoText))
    IN  [drawn EXCEPT !.y = s.y + TitleHeight + TitleGap, !.lasth = TitleHeight]

\* PDFGenerator.footer: set_y(-15) and the page-number cell; the cursor it
\* leaves is discarded by the page change or the end of the document
footer(s) ==
    Emit(s, [Band("footer", s, FooterHeight, 0, 0, "none", s.page, NoText)
                EXCEPT !.y = PageHeight - FooterOffset])

\* FPDF.add_page: footer of the page being left, new page, cursor to the
\* top margin, header(); fill colour and font are restored after header()
add_page(s) ==
    LET left == IF s.page > 0 THEN footer(s) ELSE s
    IN  header([left EXCEPT !.page = s.page + 1, !.y = t_margin])

\* mutant: the height of the cell to draw is left out of the test
will_page_break_no_height(s, h) == s.y > t_margin /\ s.y > page_break_trigger

\* FPDF.will_page_break with auto page break on and in_footer false
will_page_break(s, h) == s.y > t_margin /\ s.y + h > page_break_trigger

\* mutant: the band is drawn without the page-break test
cell_no_break(s, kind, h, row, col, fl, idx, txt) ==
    [Emit(s, Band(kind, s, h, row, col, fl, idx, txt)) EXCEPT !.lasth = h]

\* FPDF.cell with new_y = TOP: page break if needed, then the band at the
\* cursor; the cursor stays on the band's line
cell(s, kind, h, row, col, fl, idx, txt) ==
    LET at == IF will_page_break(s, h) THEN add_page(s) ELSE s
    IN  [Emit(at, Band(kind, at, h, row, col, fl, idx, txt)) EXCEPT !.lasth = h]

\* FPDF.ln(h): cursor down by h; ln() uses the height of the last cell
ln(s, h) == [s EXCEPT !.y = s.y + h]

\* where the cursor stands on a page once header() has run
ContentTop == t_margin + TitleHeight + TitleGap

\* floor((pageHeight - topMargin - bottomMargin - headerHeight) / dataRowHeight)
\* with the top margin taken below the page furniture
RowsPerPage ==
    (PageHeight - ContentTop - b_margin - HeaderRowHeight) \div DataRowHeight

\* ------------------------------------------------------------ the program
Datasets == [num_rows : 0..MaxRows, num_cols : 0..MaxCols]

NoWidth == [num |-> 0, den |-> 1, scale |-> 0, err |-> 0]

\* PDFGenerator.__init__: a document without pages
NewPdf == [page |-> 0, y |-> t_margin, lasth |-> 0, fill_color |-> "black",
           ops |-> <<>>]

Init ==
    /\ pc = "Idle"
    /\ df \in Datasets
    /\ pdf = NewPdf
    /\ i = 0
    /\ j = 0
    /\ fill = FALSE
    /\ col_width = NoWidth
    /\ text = NoText
    /\ limit = 0
    /\ out = NoText
    /\ again = NoText

\* line 170: self.add_page()
AddPage ==
    /\ pc = "Idle"
    /\ pdf' = add_page(pdf)
    /\ pc' = "PageOpen"
    /\ UNCHANGED <<df, i, j, fill, col_width, trunc_vars>>

\* lines 172-178: the column width; a zero column count raises
\* ZeroDivisionError, which leaves add_products_table and
\* generate_pdf_from_data (output() is never called)
ComputeWidths ==
    /\ pc = "PageOpen"
    /\ IF df.num_cols = 0
       THEN /\ pc' = "Failed"
            /\ UNCHANGED col_width
       ELSE /\ col_width' = FloatDiv(available_width - num_col_width, df.num_cols)
            /\ pc' = "HeaderIndex"
    /\ UNCHANGED <<df, pdf, i, j, fill, trunc_vars>>

\* lines 181-185: header colours and the index marker cell
HeaderIndexCell ==
    /\ pc = "HeaderIndex"
    /\ pdf' = cell([pdf EXCEPT !.fill_color = "dark"], "header",
                   HeaderRowHeight, 0, 0, "dark", 0, NoText)
    /\ j' = 0
    /\ pc' = "HeaderCols"
    /\ UNCHANGED <<df, i, fill, col_width, trunc_vars>>

\* lines 186-189: one header cell per column, name cut to 15 characters
HeaderCell ==
    /\ pc = "HeaderCols"
    /\ j < df.num_cols
    /\ pdf' = cell(pdf, "header", HeaderRowHeight, 0, j + 1, pdf.fill_color, 0,
                   Truncate(ColumnName(j + 1), MaxHeaderChars))
    /\ j' = j + 1
    /\ UNCHANGED <<pc, df, i, fill, col_width, trunc_vars>>

\* lines 190-194: self.ln() after the header band, data font and colour
HeaderLn ==
    /\ pc = "HeaderCols"
    /\ j = df.num_cols
    /\ pdf' = ln(pdf, pdf.lasth)
    /\ i' = 0
    /\ pc' = "RowIndex"
    /\ UNCHANGED <<df, j, fill, col_width, trunc_vars>>

\* mutant: the parity test inverted
RowFill_odd(r) == r % 2 = 1

\* the fill decision of lines 198-202
RowFill(r) == r % 2 = 0

\* mutant: the number restarts on every page
RowNumber_per_page(r) == (r % RowsPerPage) + 1

\* the index text of line 204: i + 1
RowNumber(r) == r + 1

\* lines 196-204: next row of the loop, its fill and its index cell
RowIndexCell ==
    /\ pc = "RowIndex"
    /\ i < df.num_rows
    /\ LET f == RowFill(i)
           s == IF f THEN [pdf EXCEPT !.fill_color = "light"] ELSE pdf
       IN  /\ fill' = f
           /\ pdf' = cell(s, "row", DataRowHeight, i, 0,
                          IF f THEN s.fill_color ELSE "none", RowNumber(i), NoText)
    /\ j' = 0
    /\ pc' = "RowCols"
    /\ UNCHANGED <<df, i, col_width, trunc_vars>>

\* lines 206-208: one value cell per column, value cut to 20 characters
RowValueCell ==
    /\ pc = "RowCols"
    /\ j < df.num_cols
    /\ pdf' = cell(pdf, "row", DataRowHeight, i, j + 1,
                   IF fill THEN pdf.fill_color ELSE "none", 0,
                   Truncate(CellValue(i, j + 1), MaxCellChars))
    /\ j' = j + 1
    /\ UNCHANGED <<pc, df, i, fill, col_width, trunc_vars>>

\* line 209: self.ln() ends the row
RowLn ==
    /\ pc = "RowCols"
    /\ j = df.num_cols
    /\ pdf' = ln(pdf, pdf.lasth)
    /\ i' = i + 1
    /\ pc' = "RowIndex"
    /\ UNCHANGED <<df, j, fill, col_width, trunc_vars>>

\* lines 211-215: ln(5) and the record-count cell (new_y = NEXT)
Summary ==
    /\ pc = "RowIndex"
    /\ i = df.num_rows
    /\ LET drawn == cell(ln(pdf, SummaryGap), "summary", SummaryHeight, 0, 0,
                         "none", df.num_rows, NoText)
       IN  pdf' = ln(drawn, SummaryHeight)
    /\ pc' = "SummaryDrawn"
    /\ UNCHANGED <<df, i, j, fill, col_width, trunc_vars>>

\* mutant: the document is closed on a fresh page
Output_new_page ==
    /\ pc = "SummaryDrawn"
    /\ pdf' = footer(add_page(pdf))
    /\ pc' = "Closed"
    /\ UNCHANGED <<df, i, j, fill, col_width, trunc_vars>>

\* line 231: pdf.output() renders the footer of the last page and
\* serialises the document
Output ==
    /\ pc = "SummaryDrawn"
    /\ pdf' = footer(pdf)
    /\ pc' = "Closed"
    /\ UNCHANGED <<df, i, j, fill, col_width, trunc_vars>>

Next ==
    \/ AddPage
    \/ ComputeWidths
    \/ HeaderIndexCell
    \/ HeaderCell
    \/ HeaderLn
    \/ RowIndexCell
    \/ RowValueCell
    \/ RowLn
    \/ Summary
    \/ Output

Spec == Init /\ [][Next]_vars

\* generate_pdf_from_data runs to completion: single-threaded, no
\* suspension points
FairSpec == Spec /\ WF_vars(Next)

\* --------------------------------------------------- truncation on its own
\* The two slices of add_products_table applied to arbitrary texts.
Texts == {PatternText(p, n) : p \in 1..NumPatterns, n \in 0..MaxTextLen}

InitTrunc ==
    /\ pc = "TruncIdle"
    /\ df = [num_rows |-> 0, num_cols |-> 0]
    /\ pdf = NewPdf
    /\ i = 0
    /\ j = 0
    /\ fill = FALSE
    /\ col_width = NoWidth
    /\ text \in Texts
    /\ limit = 0
    /\ out = NoText
    /\ again = NoText

\* line 188: header = str(col)[:15]
TruncateHeader ==
    /\ pc = "TruncIdle"
    /\ limit' = MaxHeaderChars
    /\ out' = Truncate(text, MaxHeaderChars)
    /\ pc' = "Truncated"
    /\ UNCHANGED <<layout_vars, text, again>>

\* line 207: value = str(row[col])[:20]
TruncateCell ==
    /\ pc = "TruncIdle"
    /\ limit' = MaxCellChars
    /\ out' = Truncate(text, MaxCellChars)
    /\ pc' = "Truncated"
    /\ UNCHANGED <<layout_vars, text, again>>

\* the same slice applied to its own result
Retruncate ==
    /\ pc = "Truncated"
    /\ again' = Truncate(out, limit)
    /\ pc' = "Retruncated"
    /\ UNCHANGED <<layout_vars, text, limit, out>>

NextTrunc ==
    \/ TruncateHeader
    \/ TruncateCell
    \/ Retruncate

SpecTrunc == InitTrunc /\ [][NextTrunc]_vars

\* =================================================================== claims
ops == pdf.ops

Done == pc \in {"SummaryDrawn", "Closed"}

LastOp == ops[Len(ops)]

IsIndexCell(b) == b.kind = "row" /\ b.col = 0

IsSummary(b) == b.kind = "summary"

Ceil(a, b) == (a + b - 1) \div b

RowsOnPage(p) ==
    Cardinality({k \in DOMAIN ops : IsIndexCell(ops[k]) /\ ops[k].page = p})

\* C1: every data row cell drawn on a page after the first is preceded, on
\* that same page, by a complete table header band (the index marker cell
\* and one cell per column).
C1_HeaderOnEveryPage ==
    \A k \in DOMAIN ops :
        (ops[k].kind = "row" /\ ops[k].page > 1) =>
            \A c \in 0..df.num_cols :
                \E m \in 1..(k - 1) :
                    /\ ops[m].kind = "header"
                    /\ ops[m].page = ops[k].page
                    /\ ops[m].col = c

\* C2: in a finished table the k-th index cell emitted shows k and belongs
\* to row k of the dataset, and there are as many index cells as rows: the
\* numbers rise by one, without gaps, and do not restart after a page break.
C2_IndexIsPosition ==
    Done =>
        LET idx == SelectSeq(ops, IsIndexCell)
        IN  /\ Len(idx) = df.num_rows
            /\ \A k \in 1..Len(idx) : idx[k].idx = k /\ idx[k].row = k - 1

\* the first index cell of the second page carries the next number
C2_Witness ==
    /\ Len(ops) > 0
    /\ IsIndexCell(LastOp)
    /\ LastOp.page = 2
    /\ LastOp.y = ContentTop
    /\ LastOp.idx = RowsPerPage + 1

\* C3: when the rows do not fit on one page, the number of pages of the
\* finished document is ceil(rowCount / rowsPerPage), and rowsPerPage is the
\* capacity of every page, the first and the continuation pages alike.
C3_PageCount ==
    (Done /\ df.num_rows > RowsPerPage) =>
        /\ pdf.page = Ceil(df.num_rows, RowsPerPage)
        /\ \A p \in 1..pdf.page : RowsOnPage(p) <= RowsPerPage

\* C4: every cell of a data row is shaded exactly when the row's 0-based
\* index in the whole dataset is even, whatever page the row is drawn on.
C4_FillByAbsoluteIndex ==
    Done =>
        \A k \in DOMAIN ops :
            ops[k].kind = "row" =>
                ops[k].fill = (IF ops[k].row % 2 = 0 THEN "light" ELSE "none")

\* a value cell of the row that a page break moved to the second page
C4_Witness ==
    /\ Len(ops) > 0
    /\ LastOp.kind = "row"
    /\ LastOp.col > 0
    /\ LastOp.page = 2
    /\ LastOp.y = ContentTop
    /\ LastOp.row % 2 = 0
    /\ LastOp.fill = "light"

\* num_col_width + den * q <= available_width for the double
\* q = (num * 2^scale + err) / (den * 2^scale), that is
\* err <= (available_width - num_col_width - num) * 2^scale
WidthsFit(q) ==
    LET slack == available_width - num_col_width - q.num
    IN  slack > 0 \/ (slack = 0 /\ q.err <= 0)

\* C5: once the widths are computed, the index-column width plus one data
\* column width per column does not exceed the content width, and the data
\* column width is positive.
C5_WidthsWithinContent ==
    col_width # NoWidth =>
        /\ col_width.den = df.num_cols
        /\ col_width.num > 0
        /\ WidthsFit(col_width)

\* C6: when add_products_table fails on a dataset without columns, no page
\* has been opened and no drawing instruction has been emitted.
C6_RejectBeforeOutput ==
    pc = "Failed" => (pdf.page = 0 /\ ops = <<>>)

\* C7: a finished table holds exactly one summary band; it states the number
\* of rows, comes after every header and row cell, lies between the content
\* top and the page-break trigger of its page, and stands either 5 below the
\* band before it or, when that would pass the trigger, at the content top
\* of a new page.
C7_SummaryBand ==
    /\ ~Done => \A k \in DOMAIN ops : ~IsSummary(ops[k])
    /\ Done =>
        /\ Len(SelectSeq(ops, IsSummary)) = 1
        /\ LET at == CHOOSE k \in DOMAIN ops : IsSummary(ops[k])
               band == ops[at]
               prev == ops[at - 1]
           IN  /\ band.idx = df.num_rows
               /\ \A k \in DOMAIN ops :
                      ops[k].kind \in {"header", "row"} => k < at
               /\ band.y >= ContentTop
               /\ band.y + band.h <= page_break_trigger
               /\ IF prev.y + prev.h + SummaryGap + SummaryHeight
                        > page_break_trigger
                  THEN /\ band.page = prev.page + 1
                       /\ band.y = ContentTop
                  ELSE /\ band.page = prev.page
                       /\ band.y = prev.y + prev.h + SummaryGap

\* the summary band did not fit below the last row and opens a page
C7_Witness ==
    /\ pc = "SummaryDrawn"
    /\ df.num_rows > 0
    /\ IsSummary(LastOp)
    /\ LastOp.idx = df.num_rows
    /\ LastOp.y = ContentTop
    /\ ops[Len(ops) - 1].kind = "title"

\* the lifecycle state the claim names for each program position
Phase ==
    CASE pc = "Idle" -> "Idle"
      [] pc \in {"PageOpen", "HeaderIndex", "HeaderCols"} -> "PageOpen"
      [] pc \in {"RowIndex", "RowCols"} -> "HeaderDrawn"
      [] pc = "SummaryDrawn" -> "SummaryDrawn"
      [] pc = "Closed" -> "Closed"
      [] OTHER -> "Failed"

LifecycleSteps ==
    {<<"Idle", "PageOpen">>, <<"PageOpen", "PageOpen">>,
     <<"PageOpen", "HeaderDrawn">>, <<"HeaderDrawn", "HeaderDrawn">>,
     <<"HeaderDrawn", "SummaryDrawn">>, <<"SummaryDrawn", "Closed">>}

HeaderBandDrawn ==
    \E k \in DOMAIN ops : ops[k].kind = "header" /\ ops[k].col = df.num_cols

EmitsRow == Len(ops') > Len(ops) /\ ops'[Len(ops')].kind = "row"

\* the parts of C8 that do not concern what follows the summary band:
\* the lifecycle order for a dataset with columns, Closed entered once and
\* never left, no row cell before the first header band is complete, and
\* termination in Closed
LifecycleCore ==
    /\ [][df.num_cols > 0 => <<Phase, Phase'>> \in LifecycleSteps]_vars
    /\ [][pc # "Closed"]_vars
    /\ [][EmitsRow => HeaderBandDrawn]_vars
    /\ (df.num_cols > 0) ~> (pc = "Closed")

C9_TruncationIdempotent ==
    /\ pc \in {"Truncated", "Retruncated"} =>
        /\ limit \in {MaxHeaderChars, MaxCellChars}
        /\ Len(out) <= limit
        /\ Len(text) <= limit => out = text
    /\ pc = "Retruncated" => again = out

\* a text longer than the cell limit, cut and cut again
C9_Witness ==
    /\ pc = "Retruncated"
    /\ limit = MaxCellChars
    /\ Len(text) > limit
    /\ Len(out) = limit
    /\ again = out

\* C10: in a finished table every data row cell lies between the content
\* top and the page-break trigger; a value cell stands on the page and at
\* the height of the cell before it in the same row, so only an index cell
\* can follow a page break; an index cell that follows a page break stands
\* at the content top (top margin plus page furniture) and the break was
\* needed (one more row height below the previous band would pass the
\* trigger); any other index cell stands directly below the previous band.
C10_RowOnOnePage ==
    Done =>
        \A k \in DOMAIN ops :
            ops[k].kind = "row" =>
                LET b == ops[k]
                    prev == ops[k - 1]
                IN  /\ b.y >= ContentTop
                    /\ b.y > 0
                    /\ b.y + DataRowHeight <= page_break_trigger
                    /\ b.col > 0 =>
                        /\ prev.kind = "row"
                        /\ prev.row = b.row
                        /\ prev.col = b.col - 1
                        /\ prev.page = b.page
                        /\ prev.y = b.y
                    /\ (b.col = 0 /\ prev.kind = "title") =>
                        /\ b.y = ContentTop
                        /\ prev.page = b.page
                        /\ k > 3
                        /\ ops[k - 2].kind = "footer"
                        /\ ops[k - 3].page = b.page - 1
                        /\ ops[k - 3].y + ops[k - 3].h + DataRowHeight
                               > page_break_trigger
                    /\ (b.col = 0 /\ prev.kind # "title") =>
                        /\ prev.page = b.page
                        /\ b.y = prev.y + prev.h

\* the last value cell of the row that a page break moved to the second
\* page
C10_Witness ==
    /\ Len(ops) > 3
    /\ LastOp.kind = "row"
    /\ df.num_cols >= 2
    /\ LastOp.col = df.num_cols
    /\ LastOp.page = 2
    /\ LastOp.y = ContentTop

====
